---- MODULE Spec2Model ----
(***************************************************************************)
(* Backtesting core of the Trading-Analytics-Dashboard worker              *)
(* (cloudfare-api/src/index.ts, the "v-strategies-adaptive-3" build):      *)
(* handleBacktest, the four strategy loops and buildMetrics.               *)
(*                                                                         *)
(* Numbers.  The worker computes in IEEE doubles; the model computes the   *)
(* same expressions exactly, in fixed point:                               *)
(*   prices (close/high/low, pos.entryPx)   integer mills (1/1000 USD)     *)
(*   Trade.entry_price/exit_price/pnl       integer cents (after clampNum) *)
(*   equity, total_pnl, final_equity        integer cents                  *)
(*   return_pct, win_rate, max_drawdown and                                *)
(*   every *_pct parameter                  integer millionths             *)
(*   atr_k                                  integer hundredths             *)
(* toFixed(d) is rounding to the nearest multiple of 10^-d, ties away from *)
(* zero.  Inequalities between products are compared after moving terms so *)
(* that every intermediate fits TLC's 32-bit integers; such a rewriting is *)
(* an equivalence over the rationals.                                      *)
(* Array indices are the source's 0-based indices; At(s, i) reads s[i].    *)
(* An optional request field is a set: {} when absent, {v} when supplied.  *)
(***************************************************************************)
EXTENDS Integers, Sequences, FiniteSets, TLC

(* ------------------------------ bounds -------------------------------- *)

\* longest series for the legacy strategy
MaxLen == 7
\* longest series for the breakout-percent strategy
MaxLenPct == 4
\* bars after the warm-up prefix for mean reversion and breakout-ATR
MaxTail == 3

(* ----------------------------- arithmetic ----------------------------- *)

Micro == 1000000
Kilo == 1000
PriceScale == 1000
CentScale == 100

\* the three non-finite doubles, as integers no finite value of a run comes
\* near; no arithmetic is done on them
PosInf == 2000000000
NegInf == -2000000000
NaN == 1999999999

IsFinite(x) == x # PosInf /\ x # NegInf /\ x # NaN

Abs(x) == IF x < 0 THEN -x ELSE x
Sgn(x) == IF x < 0 THEN -1 ELSE 1
Max(a, b) == IF a > b THEN a ELSE b
Min(a, b) == IF a < b THEN a ELSE b

\* a ?? d
Nullish(a, d) == IF a = {} THEN d ELSE CHOOSE x \in a : TRUE

\* n/d rounded to the nearest integer, ties away from zero (d > 0)
RoundDiv(n, d) ==
  LET q == Abs(n) \div d
      r == Abs(n) % d
  IN  Sgn(n) * (q + (IF 2 * r >= d THEN 1 ELSE 0))

\* +((typeof v === "number" && isFinite(v) ? v : 0).toFixed(2)), for a
\* finite v given in units of 1/scale USD; the result is in cents
clampNum(v, scale) == IF IsFinite(v) THEN RoundDiv(v * CentScale, scale) ELSE 0

\* +(n/d).toFixed(6) in millionths, d >= 0; the division is staged by
\* thousands: |n| * 10^6 does not fit 32 bits.  n/0 is Infinity, -Infinity
\* or NaN by the sign of n, and toFixed hands a non-finite value through
ToFixed6(n, d) ==
  IF ~IsFinite(n) THEN n
  ELSE IF d = 0 THEN (IF n > 0 THEN PosInf ELSE IF n < 0 THEN NegInf ELSE NaN)
  ELSE
  LET a  == Abs(n)
      q0 == a \div d
      r0 == a % d
      q1 == (r0 * Kilo) \div d
      r1 == (r0 * Kilo) % d
      q2 == (r1 * Kilo) \div d
      r2 == (r1 * Kilo) % d
  IN  Sgn(n) * (q0 * Micro + q1 * Kilo + q2 + (IF 2 * r2 >= d THEN 1 ELSE 0))

\* variant of Compound: simple interest on the initial 1000.00 instead of
\* compounding on the running equity
Compound_Simple(equity, ret) ==
  IF IsFinite(equity) /\ IsFinite(ret) THEN equity + RoundDiv(ret, 10) ELSE NaN

\* the sign of a double: 1, -1, 0 for zero, NaN for NaN
SignOf(x) ==
  IF x = NaN THEN NaN
  ELSE IF x = PosInf THEN 1
  ELSE IF x = NegInf THEN -1
  ELSE IF x > 0 THEN 1 ELSE IF x < 0 THEN -1 ELSE 0

\* variant of Compound: the return is counted twice
Compound_Twice(equity, ret) ==
  IF IsFinite(equity) /\ IsFinite(ret)
  THEN LET f    == Micro + 2 * ret
           a    == Abs(equity)
           fh   == Abs(f) \div Kilo
           fl   == Abs(f) % Kilo
           x    == a * fh + ((a * fl) \div Kilo)
           q    == x \div Kilo
           s    == x % Kilo
       IN  Sgn(equity) * Sgn(f) * (q + (IF s >= 500 THEN 1 ELSE 0))
  ELSE NaN

\* +(equity * (1 + return_pct)).toFixed(2): equity in cents, return_pct in
\* millionths; the product is staged by thousands.  With a non-finite
\* operand the product is NaN (a NaN operand, or 0 * Infinity) or the
\* infinity of the product's sign
Compound(equity, ret) ==
  IF IsFinite(equity) /\ IsFinite(ret)
  THEN LET f    == Micro + ret
           a    == Abs(equity)
           fh   == Abs(f) \div Kilo
           fl   == Abs(f) % Kilo
           x    == a * fh + ((a * fl) \div Kilo)
           q    == x \div Kilo
           s    == x % Kilo
       IN  Sgn(equity) * Sgn(f) * (q + (IF s >= 500 THEN 1 ELSE 0))
  ELSE LET se == SignOf(equity)
           sf == IF IsFinite(ret) THEN SignOf(Micro + ret) ELSE SignOf(ret)
       IN  IF se = NaN \/ sf = NaN \/ se = 0 \/ sf = 0 THEN NaN
           ELSE IF se * sf > 0 THEN PosInf ELSE NegInf

\* a/b > c/d for a, c >= 0 and b, d > 0, by continued fractions
RECURSIVE FracGT(_, _, _, _)
FracGT(a, b, c, d) ==
  LET qa == a \div b
      qc == c \div d
      ra == a % b
      rc == c % d
  IN  IF qa # qc THEN qa > qc
      ELSE IF ra = 0 THEN FALSE
      ELSE IF rc = 0 THEN TRUE
      ELSE FracGT(d, rc, b, ra)

At(s, i) == s[i + 1]

RECURSIVE SumSeq(_)
SumSeq(s) == IF s = <<>> THEN 0 ELSE Head(s) + SumSeq(Tail(s))

SeqsUpTo(S, n) == UNION {[1..k -> S] : k \in 0..n}


(* ------------------------------ constants ----------------------------- *)

InitialEquity == 1000
NoExit == -9999
NoDate == 0

STRATEGIES == {"legacy_absolute", "breakout_pct", "breakout_atr", "mean_reversion"}

\* params.strategy of a body that has none
Undefined == "undefined"

\* the values params.strategy is submitted with: a known tag, none, or a tag
\* the Worker does not know
Tags == STRATEGIES \cup {Undefined, "momentum"}

(* ------------------------------- inputs ------------------------------- *)

LegacyLevels == {9000, 10006, 10014}
LegacyThresholds == {10000}
ScenarioCloses == <<10000, 9000, 11000, 12000, 8000>>
AdaptiveLevels == {9700, 10000, 10300}
\* closes of a source that reports a missing quote as null: Number(null) is 0
NullCloseLevels == {0, 10000}
BarSpreads == {50, 400}
\* closes of a stock that loses 99% in a bar and recovers
CrashLevels == {100, 10000}

\* OHLC rows as fetchCandles returns them: ascending dates (the day number
\* of bar k is k+1), low <= close <= high
MkBars(closes, spread) ==
  [k \in 1..Len(closes) |->
     [date |-> k, close |-> closes[k],
      high |-> closes[k] + spread, low |-> closes[k] - spread]]

\* rows as a price source may deliver them: the dates as given
MkRows(closes, dates, spread) ==
  [k \in 1..Len(closes) |->
     [date |-> dates[k], close |-> closes[k],
      high |-> closes[k] + spread, low |-> closes[k] - spread]]

\* date orders a source may deliver for three rows: out of order, duplicated
DateOrders == {<<2, 1, 3>>, <<1, 1, 2>>}

\* n bars of null quotes
Nulls(n) == [k \in 1..n |-> 0]

\* a flat run-in of n bars
Warm(n) == [k \in 1..n |-> 10000]

(* ------------------------------ fetchCandles -------------------------- *)

\* r placed behind every row of the sorted s that does not compare greater
RECURSIVE InsertByDate(_, _)
InsertByDate(s, r) ==
  IF s = <<>> THEN <<r>>
  ELSE IF Head(s).date <= r.date THEN <<Head(s)>> \o InsertByDate(Tail(s), r)
  ELSE <<r>> \o s

\* out.sort((a, b) => a.date.localeCompare(b.date)): a stable ascending sort
RECURSIVE SortByDate(_)
SortByDate(rs) ==
  IF rs = <<>> THEN <<>>
  ELSE InsertByDate(SortByDate(SubSeq(rs, 1, Len(rs) - 1)), rs[Len(rs)])

(* ----------------------------- indicators ----------------------------- *)

Closes(d) == [k \in 1..Len(d) |-> d[k].close]

\* const mean = (xs) => xs.length ? sum/len : 0, on integers of one unit,
\* rounded to that unit
mean(xs) == IF Len(xs) = 0 THEN 0 ELSE RoundDiv(SumSeq(xs), Len(xs))

SetMax(S) == CHOOSE x \in S : \A y \in S : y <= x
SetMin(S) == CHOOSE x \in S : \A y \in S : y >= x

\* rmax/rmin over a[max(0,i-w) .. i-1]; fin is FALSE for -Infinity/+Infinity
rmax(a, w, i) ==
  LET s == Max(0, i - w)
      W == {At(a, k) : k \in s..(i - 1)}
  IN  IF W = {} THEN [fin |-> FALSE, v |-> 0] ELSE [fin |-> TRUE, v |-> SetMax(W)]

rmin(a, w, i) ==
  LET s == Max(0, i - w)
      W == {At(a, k) : k \in s..(i - 1)}
  IN  IF W = {} THEN [fin |-> FALSE, v |-> 0] ELSE [fin |-> TRUE, v |-> SetMin(W)]

\* sma over a[max(0,i-w+1) .. i]: the exact mean sum/n as the pair
\* <<sum, n>>; n = 0 stands for NaN
sma(a, w, i) ==
  LET s == Max(0, i - w + 1)
  IN  [sum |-> SumSeq([k \in 1..(i - s + 1) |-> At(a, s + k - 1)]),
       n   |-> Max(0, i - s + 1)]

(* ------------------------------ buildMetrics -------------------------- *)

\* variant of EquityFrom: a point is pushed only when the equity changed
RECURSIVE EquityFrom_SkipFlat(_, _)
EquityFrom_SkipFlat(ts, equity) ==
  IF ts = <<>> THEN <<>>
  ELSE LET e2 == Compound(equity, Head(ts).return_pct)
       IN  (IF e2 = equity THEN <<>> ELSE <<[date |-> Head(ts).exit_date, equity |-> e2]>>)
           \o EquityFrom_SkipFlat(Tail(ts), e2)

RECURSIVE EquityFrom(_, _)
EquityFrom(ts, equity) ==
  IF ts = <<>> THEN <<>>
  ELSE LET e2 == Compound(equity, Head(ts).return_pct)
       IN  <<[date |-> Head(ts).exit_date, equity |-> e2]>> \o EquityFrom(Tail(ts), e2)

\* lines 280-285
EquityCurve(ts, d, initialEquity) ==
  <<[date   |-> IF d = <<>> THEN NoDate ELSE d[1].date,
     equity |-> clampNum(initialEquity * CentScale, CentScale)]>>
  \o EquityFrom(ts, initialEquity * CentScale)

\* variant of DrawdownFrom: the peak stays at its first value and the
\* distance from it is taken in absolute value
RECURSIVE DrawdownFrom_FixedPeak(_, _, _, _)
DrawdownFrom_FixedPeak(curve, peak, num, den) ==
  IF curve = <<>> THEN [num |-> num, den |-> den]
  ELSE LET e == Head(curve).equity
       IN  IF peak > 0 /\ FracGT(Abs(peak - e), peak, num, den)
           THEN DrawdownFrom_FixedPeak(Tail(curve), peak, Abs(peak - e), peak)
           ELSE DrawdownFrom_FixedPeak(Tail(curve), peak, num, den)

\* lines 295-300: running peak and the largest |dd| seen so far as the
\* fraction num/den (num = PosInf once dd was -Infinity).  A NaN equity
\* compares false both times; with an infinite peak every dd is NaN; an
\* equity of -Infinity under a finite peak gives dd = -Infinity
RECURSIVE DrawdownFrom(_, _, _, _)
DrawdownFrom(curve, peak, num, den) ==
  IF curve = <<>> THEN [num |-> num, den |-> den]
  ELSE LET e  == Head(curve).equity
           pk == IF e # NaN /\ peak # NaN /\ e > peak THEN e ELSE peak
       IN  IF e = NaN \/ ~IsFinite(pk) \/ num = PosInf
           THEN DrawdownFrom(Tail(curve), pk, num, den)
           ELSE IF e = NegInf
           THEN DrawdownFrom(Tail(curve), pk, IF pk # 0 THEN PosInf ELSE num, den)
           ELSE IF pk > 0 /\ FracGT(pk - e, pk, num, den)
           THEN DrawdownFrom(Tail(curve), pk, pk - e, pk)
           ELSE DrawdownFrom(Tail(curve), pk, num, den)

\* variant of Wins: a flat trade counts as a win
Wins_NonNegative(ts) == Cardinality({k \in 1..Len(ts) : ts[k].pnl >= 0})

\* line 287
Wins(ts) == Cardinality({k \in 1..Len(ts) : ts[k].pnl > 0})

\* lines 289-294: Math.pow(equity/initialEquity, 1/years) - 1 is kept as
\* the unevaluated power; pow = FALSE is the value 0
AnnualizedReturn(d, equity, initialEquity) ==
  LET days == IF Len(d) > 1 THEN d[Len(d)].date - d[1].date ELSE 0
  IN  IF Len(d) > 1 /\ days > 0
      THEN [pow |-> TRUE, num |-> equity, den |-> initialEquity * CentScale, days |-> days]
      ELSE [pow |-> FALSE, num |-> 0, den |-> 1, days |-> 0]

buildMetrics(ts, d, initialEquity) ==
  LET curve  == EquityCurve(ts, d, initialEquity)
      equity == curve[Len(curve)].equity
      dd     == DrawdownFrom(curve, curve[1].equity, 0, 1)
      \* equity - initialEquity
      gain   == IF IsFinite(equity) THEN equity - initialEquity * CentScale ELSE equity
  IN  [equity_curve |-> curve,
       metrics |->
         [total_pnl         |-> clampNum(clampNum(gain, CentScale), CentScale),
          win_rate          |-> IF Len(ts) # 0 THEN ToFixed6(Wins(ts), Len(ts)) ELSE 0,
          annualized_return |-> AnnualizedReturn(d, equity, initialEquity),
          max_drawdown      |-> ToFixed6(dd.num, dd.den),
          final_equity      |-> clampNum(equity, CentScale),
          initial_equity    |-> clampNum(initialEquity * CentScale, CentScale)]]

(* -------------------------------- state ------------------------------ *)

VARIABLES
  strategy,      \* params.strategy
  threshold,     \* body.threshold (mills)
  hold_days,     \* body.hold_days, optional
  raw,           \* the params block forwarded to the strategy
  rows,          \* the finite rows of the price source, in its order
  data,          \* the candles fetchCandles returned
  pc,            \* "start", "loop", "done": position in handleBacktest
  i,             \* the strategy loop's index
  pos,           \* the open position, NoPos for null
  lastExit,      \* bar index of the last exit
  trades,        \* Trade[] being built
  log,           \* history: bar indices, side and raw prices of each trade
  entries,       \* history: number of positions opened
  equity_curve,  \* response.equity_curve
  metrics,       \* response.metrics
  prev,          \* the response of the invocation before this one, if any; with
                 \* its log when that invocation had one more bar
  req,           \* the Request the Worker's fetch received
  wpc,           \* position in fetch: "recv", "json", "route", "peek", "backtest", "sent"
  responses,     \* the Responses fetch has returned for req
  symbol,        \* App state: the symbol field
  peek,          \* App state: <<>> for null, <<s>> for a PeekResponse on symbol s
  result,        \* App state: <<>> for null, <<s>> for a BacktestResponse on symbol s
  error,         \* App state: an error message is shown
  loading,       \* App state: a backtest is running
  peekBusy,      \* App state: a peek is running
  calls          \* the api.post promises of the App that have not settled

\* the variables of handleBacktest
backtest == <<strategy, threshold, hold_days, raw, rows, data, pc, i, pos, lastExit,
              trades, log, entries, equity_curve, metrics, prev>>

\* the variables of the Worker's fetch
worker == <<req, wpc, responses>>

\* the variables of the App component
app == <<symbol, peek, result, error, loading, peekBusy, calls>>

\* what a step of handleBacktest leaves alone
others == <<worker, app>>

vars == <<backtest, worker, app>>

inputs == <<strategy, threshold, hold_days, raw, rows, data>>

NoPos == [side |-> "none", entryIdx |-> -1, entryPx |-> 0]

NoMetrics ==
  [total_pnl |-> 0, win_rate |-> 0,
   annualized_return |-> [pow |-> FALSE, num |-> 0, den |-> 1, days |-> 0],
   max_drawdown |-> 0, final_equity |-> 0, initial_equity |-> 0]

\* the params block when the legacy form is submitted
NoParams ==
  [lookback |-> {}, threshold_pct |-> {}, atr_k |-> {}, drop_pct |-> {},
   allow_long |-> {}, allow_short |-> {}, take_profit_pct |-> {},
   stop_loss_pct |-> {}, max_hold_days |-> {}, cooldown_days |-> {},
   allow_immediate_reentry |-> {}]

\* variant of Dispatched: the last else runs the first adaptive strategy
Dispatched_ElsePct ==
  IF strategy = Undefined THEN "legacy_absolute"
  ELSE IF strategy \in STRATEGIES THEN strategy
  ELSE "breakout_pct"

\* lines 591-605: params.strategy ?? "legacy_absolute", then the if-chain
\* whose last else runs the legacy strategy
Dispatched ==
  LET tag == IF strategy = Undefined THEN "legacy_absolute" ELSE strategy
  IN  IF tag = "legacy_absolute" THEN "legacy_absolute"
      ELSE IF tag = "breakout_pct" THEN "breakout_pct"
      ELSE IF tag = "breakout_atr" THEN "breakout_atr"
      ELSE IF tag = "mean_reversion" THEN "mean_reversion"
      ELSE "legacy_absolute"

\* const hold_days = Math.max(1, Number(body?.hold_days ?? 4))
holdDays == Max(1, Nullish(hold_days, 4))

(* ---------------------------- runLegacyAbsolute ----------------------- *)

\* variant of Push: the trade is put in front (unshift)
Push_Front(ts, t) == <<t>> \o ts

\* trades.push(t), lines 322, 372, 436, 509
Push(ts, t) == Append(ts, t)

\* lines 321-331
LegacyTrade(d, k, h) ==
  LET entry == At(d, k)
      exit  == At(d, k + h)
      pnl   == exit.close - entry.close
  IN  [entry_date  |-> entry.date,
       entry_price |-> clampNum(entry.close, PriceScale),
       exit_date   |-> exit.date,
       exit_price  |-> clampNum(exit.close, PriceScale),
       pnl         |-> clampNum(pnl, PriceScale),
       return_pct  |-> ToFixed6(pnl, entry.close)]

\* variant of crossed: the close two bars on, when there is one, must hold
\* the level
crossed_Ahead(d, k, thr) ==
  /\ At(d, k - 1).close < thr
  /\ At(d, k).close >= thr
  /\ k + 2 < Len(d) => At(d, k + 2).close >= thr

\* variant of crossed: the previous close is not looked at
crossed_NoPrev(d, k, thr) == At(d, k).close >= thr

\* line 319
crossed(d, k, thr) == At(d, k - 1).close < thr /\ At(d, k).close >= thr

\* one iteration of the loop at line 318
LegacyStep ==
  /\ pc = "loop"
  /\ Dispatched = "legacy_absolute"
  /\ i < Len(data) - holdDays
  /\ IF crossed(data, i, threshold)
     THEN /\ trades' = Push(trades, LegacyTrade(data, i, holdDays))
          /\ log' = Append(log, [side |-> "long", entryIdx |-> i, exitIdx |-> i + holdDays,
                                 entryPx |-> At(data, i).close,
                                 exitPx |-> At(data, i + holdDays).close])
          /\ entries' = entries + 1
     ELSE UNCHANGED <<trades, log, entries>>
  /\ i' = i + 1
  /\ UNCHANGED <<inputs, pc, pos, lastExit, equity_curve, metrics, prev, others>>

(* ------------------------ parameters of the three loops --------------- *)

\* a/b >= p/10^6 and a/b > p/10^6, for b >= 0 and p >= 0 or NaN; a/0 is
\* Infinity for a > 0 and NaN or -Infinity otherwise, and nothing compares
\* with NaN
RatioGE(a, b, p) ==
  IF p = NaN \/ a < 0 THEN FALSE
  ELSE IF b = 0 THEN a > 0
  ELSE ~FracGT(p, Micro, a, b)
RatioGT(a, b, p) ==
  IF p = NaN \/ a < 0 THEN FALSE
  ELSE IF b = 0 THEN a > 0
  ELSE FracGT(a, b, p, Micro)

\* lines 341, 404, 471
lookback ==
  CASE strategy = "breakout_pct"   -> Max(5, Min(200, Nullish(raw.lookback, 20)))
    [] strategy = "breakout_atr"   -> Max(10, Min(100, Nullish(raw.lookback, 20)))
    [] strategy = "mean_reversion" -> Max(5, Min(100, Nullish(raw.lookback, 20)))
    [] OTHER -> 0

\* Math.max(lo, Math.min(hi, x)): NaN stays NaN, Infinity is cut to hi
ClampJS(lo, hi, x) == IF x = NaN THEN NaN ELSE Max(lo, Min(hi, x))

\* tenths * x / 10 for a finite or non-finite x >= 0
Tenths(tenths, x) == IF IsFinite(x) THEN RoundDiv(tenths * x, 10) ELSE x

\* lines 344-346, 474-476: mean absolute daily return, clamped to 0.1%..5%;
\* each |return| is taken to the nearest millionth.  After a close of 0 the
\* return is Infinity, or NaN when the next close is 0 too, and so is the mean
volPct ==
  LET closes == Closes(data)
      rets == [k \in 1..(Len(closes) - 1) |->
                 ToFixed6(Abs(At(closes, k) - At(closes, k - 1)), At(closes, k - 1))]
      m    == IF \E k \in 1..Len(rets) : rets[k] = NaN THEN NaN
              ELSE IF \E k \in 1..Len(rets) : rets[k] = PosInf THEN PosInf
              ELSE mean(rets)
  IN  ClampJS(1000, 50000, m)

\* line 347
threshold_pct == ClampJS(1000, 20000, Nullish(raw.threshold_pct, Tenths(6, volPct)))

\* line 477
drop_pct == ClampJS(3000, 25000, Nullish(raw.drop_pct, Tenths(8, volPct)))

\* lines 349-355, 414-420, 479-485
allow_long == Nullish(raw.allow_long, TRUE)
allow_short == Nullish(raw.allow_short, TRUE)
max_hold_days ==
  Max(1, Nullish(raw.max_hold_days, IF strategy = "mean_reversion" THEN 1 ELSE 5))
take_profit_pct ==
  Nullish(raw.take_profit_pct, IF strategy = "mean_reversion" THEN 0 ELSE 20000)
stop_loss_pct ==
  Nullish(raw.stop_loss_pct, IF strategy = "mean_reversion" THEN 0 ELSE 10000)
cooldown_days == Max(0, Nullish(raw.cooldown_days, 0))
allow_immediate_reentry == Nullish(raw.allow_immediate_reentry, TRUE)

(* ------------------------- the shared position code ------------------- *)

Dir(p) == IF p.side = "long" THEN 1 ELSE -1

\* variant of ExitRule: a position is closed on the first bar after entry
ExitRule_FirstBar(p, k, c) == k - p.entryIdx >= 1

\* variant of ExitRule: the holding limit is tested with >
ExitRule_LateHold(p, k, c) ==
  LET held == k - p.entryIdx
      num  == (c - p.entryPx) * Dir(p)
  IN  \/ held > max_hold_days
      \/ take_profit_pct # 0 /\ RatioGE(num, p.entryPx, take_profit_pct)
      \/ stop_loss_pct # 0 /\ RatioGE(-num, p.entryPx, stop_loss_pct)

\* variant of ExitRule: the stop-loss is not looked at
ExitRule_NoStop(p, k, c) ==
  LET held == k - p.entryIdx
      num  == (c - p.entryPx) * Dir(p)
  IN  \/ held >= max_hold_days
      \/ take_profit_pct # 0 /\ RatioGE(num, p.entryPx, take_profit_pct)

\* lines 365-370, 429-434: held >= max_hold_days, then take-profit, then
\* stop-loss; ret = (c - entryPx) / entryPx * dir
ExitRule(p, k, c) ==
  LET held == k - p.entryIdx
      num  == (c - p.entryPx) * Dir(p)
  IN  \/ held >= max_hold_days
      \/ take_profit_pct # 0 /\ RatioGE(num, p.entryPx, take_profit_pct)
      \/ stop_loss_pct # 0 /\ RatioGE(-num, p.entryPx, stop_loss_pct)

\* lines 372-379, 436-441, 509-516
CloseTrade(d, p, k) ==
  LET c   == At(d, k).close
      num == (c - p.entryPx) * Dir(p)
  IN  [entry_date  |-> At(d, p.entryIdx).date,
       entry_price |-> clampNum(p.entryPx, PriceScale),
       exit_date   |-> At(d, k).date,
       exit_price  |-> clampNum(c, PriceScale),
       pnl         |-> clampNum(num, PriceScale),
       return_pct  |-> ToFixed6(num, p.entryPx)]

\* variant of canEnter: the same-bar re-entry policy is not consulted
canEnter_SameBar(p, k, last) ==
  /\ p.side = "none"
  /\ (cooldown_days = 0 \/ k - last > cooldown_days)

\* variant of canEnter: the cooldown is not consulted
canEnter_NoCooldown(p, k, last) ==
  /\ p.side = "none"
  /\ (allow_immediate_reentry \/ k > last)

\* lines 385, 446, 521
canEnter(p, k, last) ==
  /\ p.side = "none"
  /\ (allow_immediate_reentry \/ k > last)
  /\ (cooldown_days = 0 \/ k - last > cooldown_days)

\* the rest of one iteration once the exit decision is known: close the
\* position, then open one if entry is permitted and a signal fires
Iterate(exit, goL, goS) ==
  LET c     == At(data, i).close
      pos1  == IF exit THEN NoPos ELSE pos
      last1 == IF exit THEN i ELSE lastExit
      open  == canEnter(pos1, i, last1) /\ (goL \/ goS)
  IN  /\ trades' = IF exit THEN Push(trades, CloseTrade(data, pos, i)) ELSE trades
      /\ log' = IF exit
                THEN Append(log, [side |-> pos.side, entryIdx |-> pos.entryIdx, exitIdx |-> i,
                                  entryPx |-> pos.entryPx, exitPx |-> c])
                ELSE log
      /\ lastExit' = last1
      /\ pos' = IF open
                THEN [side |-> IF goL THEN "long" ELSE "short", entryIdx |-> i, entryPx |-> c]
                ELSE pos1
      /\ entries' = IF open THEN entries + 1 ELSE entries
      /\ i' = i + 1
      /\ UNCHANGED <<inputs, pc, equity_curve, metrics, prev, others>>

(* ------------------------------ runBreakoutPct ------------------------ *)

\* variant of PctShort: every bar is a short signal
PctShort_Always(d, k) == allow_short

\* lines 388-392
PctLong(d, k) ==
  LET c  == At(d, k).close
      up == rmax(Closes(d), lookback, k)
  IN  allow_long /\ up.fin /\ RatioGT(c - up.v, up.v, threshold_pct)

PctShort(d, k) ==
  LET c  == At(d, k).close
      dn == rmin(Closes(d), lookback, k)
  IN  allow_short /\ dn.fin /\ RatioGT(dn.v - c, dn.v, threshold_pct)

\* one iteration of the loop at line 360
BreakoutPctStep ==
  /\ pc = "loop"
  /\ Dispatched = "breakout_pct"
  /\ i < Len(data)
  /\ Iterate(pos.side # "none" /\ ExitRule(pos, i, At(data, i).close),
             PctLong(data, i), PctShort(data, i))

(* ------------------------------ runMeanReversion ---------------------- *)

\* variant of MeanTouch: the mean is not consulted on exit
MeanTouch_Never(p, c, m) == FALSE

\* lines 501-502: c >= m for a long, c <= m for a short, m = sum/n
MeanTouch(p, c, m) ==
  /\ m.n > 0
  /\ \/ p.side = "long" /\ c * m.n >= m.sum
     \/ p.side = "short" /\ c * m.n <= m.sum

\* lines 522-526: c <= m*(1-drop_pct), c >= m*(1+drop_pct), isFinite(m)
MrLong(d, k) ==
  LET c == At(d, k).close
      m == sma(Closes(d), lookback, k)
  IN  /\ m.n > 0 /\ allow_long
      /\ IF m.sum = 0 THEN drop_pct # NaN /\ c <= 0
         ELSE RatioGE(m.sum - c * m.n, m.sum, drop_pct)

MrShort(d, k) ==
  LET c == At(d, k).close
      m == sma(Closes(d), lookback, k)
  IN  /\ m.n > 0 /\ allow_short
      /\ IF m.sum = 0 THEN drop_pct # NaN /\ c >= 0
         ELSE RatioGE(c * m.n - m.sum, m.sum, drop_pct)

\* one iteration of the loop at line 490
MeanReversionStep ==
  /\ pc = "loop"
  /\ Dispatched = "mean_reversion"
  /\ i < Len(data)
  /\ LET c == At(data, i).close
         m == sma(Closes(data), lookback, i)
     IN  Iterate(pos.side # "none" /\ (MeanTouch(pos, c, m) \/ ExitRule(pos, i, c)),
                 MrLong(data, i), MrShort(data, i))

(* ------------------------------ runBreakoutAtr ------------------------ *)

\* lines 264-268: true range per bar, bar 0 against its own close
TrueRange(b) ==
  [k \in 1..Len(b) |->
     LET pc0 == IF k > 1 THEN b[k - 1].close ELSE b[k].close
     IN  Max(b[k].high - b[k].low, Max(Abs(b[k].high - pc0), Abs(b[k].low - pc0)))]

\* lines 269-275: atr[k] as the exact fraction num/den, fin = FALSE for NaN.
\* s is the running sum of line 271, with tr[k-p] taken out at k = p
atrWilder(b, p) ==
  LET tr == TrueRange(b)
      Sum(lo, hi) == SumSeq([j \in 1..(hi - lo + 1) |-> At(tr, lo + j - 1)])
      a[k \in 0..(Len(b) - 1)] ==
        IF k < p
        THEN IF k = p - 1 THEN [fin |-> TRUE, num |-> Sum(0, k), den |-> p]
                          ELSE [fin |-> FALSE, num |-> 0, den |-> 1]
        ELSE IF k = p
        THEN [fin |-> TRUE, num |-> Sum(0, k) - At(tr, k - p), den |-> p]
        ELSE [fin |-> TRUE,
              num |-> a[k - 1].num * (p - 1) + At(tr, k) * a[k - 1].den,
              den |-> a[k - 1].den * p]
  IN  [k \in 1..Len(b) |-> a[k - 1]]

\* lines 408-412: the ATR multiple in hundredths; the adaptive value
\* 0.5 * clamp((avgAtr/avgPx)/0.01, 0.3, 0.8) is taken to the nearest
\* hundredth at each step
atr_k ==
  LET atr    == atrWilder(data, lookback)
      fin    == {k \in 1..Len(atr) : atr[k].fin}
      \* mean of the finite atr values, in mills
      avgAtr == IF fin = {} THEN 0
                ELSE RoundDiv(SumSeq([j \in 1..Len(atr) |->
                                 IF atr[j].fin THEN RoundDiv(atr[j].num, atr[j].den) ELSE 0]),
                              Cardinality(fin))
      avgPx  == mean(Closes(data))
      volAdj == IF avgPx > 0
                THEN Max(30, Min(80, RoundDiv(avgAtr * 100 * CentScale, avgPx)))
                ELSE 100
  IN  Nullish(raw.atr_k, RoundDiv(50 * volAdj, 100))

\* variant of AtrLong: a close above the rolling maximum is enough
AtrLong_NoBand(d, k) ==
  LET c  == At(d, k).close
      up == rmax(Closes(d), lookback, k)
      a  == At(atrWilder(d, lookback), k)
  IN  a.fin /\ allow_long /\ up.fin /\ c > up.v

\* lines 449-457: c > up + atr_k*a and c < dn - atr_k*a, only for finite a
AtrLong(d, k) ==
  LET c  == At(d, k).close
      up == rmax(Closes(d), lookback, k)
      a  == At(atrWilder(d, lookback), k)
  IN  /\ a.fin /\ allow_long /\ up.fin
      /\ IF a.num = 0 THEN c - up.v > 0
         ELSE c - up.v > 0 /\ FracGT((c - up.v) * a.den, a.num, atr_k, 100)

AtrShort(d, k) ==
  LET c  == At(d, k).close
      dn == rmin(Closes(d), lookback, k)
      a  == At(atrWilder(d, lookback), k)
  IN  /\ a.fin /\ allow_short /\ dn.fin
      /\ IF a.num = 0 THEN dn.v - c > 0
         ELSE dn.v - c > 0 /\ FracGT((dn.v - c) * a.den, a.num, atr_k, 100)

\* one iteration of the loop at line 425
BreakoutAtrStep ==
  /\ pc = "loop"
  /\ Dispatched = "breakout_atr"
  /\ i < Len(data)
  /\ Iterate(pos.side # "none" /\ ExitRule(pos, i, At(data, i).close),
             AtrLong(data, i), AtrShort(data, i))

(* --------------------------------- fetch ------------------------------ *)

\* a pathname as its "/"-separated segments after the leading slash:
\* "/" is <<"">>, "/about" is <<"about">>, "/api/peek" is <<"api", "peek">>,
\* "/peek/" is <<"peek", "">>
Paths ==
  {<<"">>, <<"about">>, <<"status">>, <<"peek">>, <<"backtest">>, <<"health">>,
   <<"api", "peek">>, <<"api", "backtest">>, <<"api", "status">>, <<"peek", "">>,
   <<"backtest", "run">>}

Methods == {"OPTIONS", "GET", "POST", "PUT", "HEAD", "DELETE"}

\* variant of endsWith: the whole pathname is compared
endsWith_Whole(path, seg) == path = <<seg>>

\* path.endsWith("/" + seg), lines 647-648
endsWith(path, seg) == path[Len(path)] = seg

\* a request: its method, its pathname, whether req.json() parses the body,
\* and whether the handler it reaches throws
Requests ==
  [method : Methods, path : Paths, bodyParses : BOOLEAN, handlerThrows : BOOLEAN]

\* json(...) and text(...), lines 10-32
Reply(status, kind, ok, detail) ==
  [status |-> status, kind |-> kind, ok |-> ok, detail |-> detail]

\* "return <response>" inside fetch
Return(r) ==
  /\ responses' = Append(responses, r)
  /\ wpc' = "sent"
  /\ UNCHANGED <<req, backtest, app>>

\* lines 637-641: the checks on method and path before the body is read
Route ==
  /\ wpc = "recv"
  /\ IF req.method = "OPTIONS"
       THEN Return(Reply(200, "text", FALSE, FALSE))
     ELSE IF req.method = "GET" /\ req.path = <<"about">>
       THEN Return(Reply(200, "json", TRUE, FALSE))
     ELSE IF req.method = "GET" /\ (req.path = <<"">> \/ req.path = <<"status">>)
       THEN Return(Reply(200, "json", TRUE, FALSE))
     ELSE IF req.method # "POST"
       THEN Return(Reply(405, "text", FALSE, FALSE))
     ELSE /\ wpc' = "json"
          /\ UNCHANGED <<req, responses, backtest, app>>

\* lines 643-645: req.json() and its catch
ParseBody ==
  /\ wpc = "json"
  /\ IF req.bodyParses
       THEN /\ wpc' = "route"
            /\ UNCHANGED <<req, responses, backtest, app>>
       ELSE Return(Reply(400, "text", FALSE, FALSE))

\* lines 647-649: the handler is chosen by the end of the path
Dispatch ==
  /\ wpc = "route"
  /\ IF endsWith(req.path, "peek")
       THEN /\ wpc' = "peek"
            /\ UNCHANGED <<req, responses, backtest, app>>
     ELSE IF endsWith(req.path, "backtest")
       THEN /\ wpc' = "backtest"
            /\ UNCHANGED <<req, responses, backtest, app>>
     ELSE Return(Reply(404, "text", FALSE, FALSE))

\* lines 647-648: the awaited handler resolves and its value is sent
HandlerReturns ==
  /\ wpc \in {"peek", "backtest"}
  /\ ~req.handlerThrows
  /\ Return(Reply(200, "json", FALSE, FALSE))

\* lines 650-652: the awaited handler rejects and the catch answers
HandlerThrows ==
  /\ wpc \in {"peek", "backtest"}
  /\ req.handlerThrows
  /\ Return(Reply(500, "json", FALSE, TRUE))

\* fetch is awaiting the named handler for a request that reached it
Handling(h) ==
  /\ req = [method |-> "POST", path |-> <<h>>, bodyParses |-> TRUE, handlerThrows |-> FALSE]
  /\ wpc = h
  /\ responses = <<>>

(* ---------------------------------- App ------------------------------ *)

\* what the symbol field can hold: empty, or a ticker
Symbols == {"", "AAPL", "MSFT", "SPY"}

\* useState initial values, App.tsx lines 420-431
AppMounted ==
  /\ symbol = ""
  /\ peek = <<>>
  /\ result = <<>>
  /\ error = FALSE
  /\ loading = FALSE
  /\ peekBusy = FALSE
  /\ calls = {}

\* const canPeek = symbol.trim().length > 0
canPeek == symbol # ""

\* a pending api.post: the route and the symbol in its payload
Call(kind, s) == [kind |-> kind, symbol |-> s]

\* setSymbol from a preset chip, the input or the index (lines 734, 748,
\* 811) and the effect on [symbol] (lines 469-473)
SetSymbol ==
  \E s \in Symbols \ {symbol} :
    /\ symbol' = s
    /\ peek' = <<>>
    /\ result' = <<>>
    /\ error' = FALSE
    /\ UNCHANGED <<loading, peekBusy, calls, backtest, worker>>

\* doPeek up to its await, lines 496-513; the button is disabled at 770
DoPeek ==
  /\ canPeek /\ ~peekBusy
  /\ error' = FALSE
  /\ result' = <<>>
  /\ peek' = <<>>
  /\ peekBusy' = TRUE
  /\ calls' = calls \cup {Call("peek", symbol)}
  /\ UNCHANGED <<symbol, loading, backtest, worker>>

\* lines 514-517 and the finally at 523-525
PeekResolves ==
  \E c \in calls :
    /\ c.kind = "peek"
    /\ peek' = <<c.symbol>>
    /\ peekBusy' = FALSE
    /\ calls' = calls \ {c}
    /\ UNCHANGED <<symbol, result, error, loading, backtest, worker>>

\* lines 518-525
PeekRejects ==
  \E c \in calls :
    /\ c.kind = "peek"
    /\ error' = TRUE
    /\ peek' = <<>>
    /\ peekBusy' = FALSE
    /\ calls' = calls \ {c}
    /\ UNCHANGED <<symbol, result, loading, backtest, worker>>

\* doBacktest up to its await, lines 618-641; the button is disabled at 966
DoBacktest ==
  /\ canPeek /\ ~loading
  /\ error' = FALSE
  /\ loading' = TRUE
  /\ result' = <<>>
  /\ calls' = calls \cup {Call("backtest", symbol)}
  /\ UNCHANGED <<symbol, peek, peekBusy, backtest, worker>>

\* doBacktest when the legacy form does not validate: the throw at lines
\* 626-629 is caught at 643 and the finally runs, without a request
DoBacktestInvalid ==
  /\ canPeek /\ ~loading
  /\ error' = TRUE
  /\ loading' = FALSE
  /\ result' = <<>>
  /\ UNCHANGED <<symbol, peek, peekBusy, calls, backtest, worker>>

\* lines 641-642 and the finally at 645-647
BacktestResolves ==
  \E c \in calls :
    /\ c.kind = "backtest"
    /\ result' = <<c.symbol>>
    /\ loading' = FALSE
    /\ calls' = calls \ {c}
    /\ UNCHANGED <<symbol, peek, error, peekBusy, backtest, worker>>

\* lines 643-647
BacktestRejects ==
  \E c \in calls :
    /\ c.kind = "backtest"
    /\ error' = TRUE
    /\ loading' = FALSE
    /\ calls' = calls \ {c}
    /\ UNCHANGED <<symbol, peek, result, peekBusy, backtest, worker>>

(* ------------------------------ handleBacktest ------------------------ *)

\* variant of EmptyResponse: the response of buildMetrics on no trades with
\* the seed point left out
EmptyResponse_NoSeed ==
  [trades |-> <<>>,
   equity_curve |-> <<>>,
   metrics |-> [total_pnl |-> 0, win_rate |-> 0,
                annualized_return |-> [pow |-> FALSE, num |-> 0, den |-> 1, days |-> 0],
                max_drawdown |-> 0,
                final_equity |-> InitialEquity * CentScale,
                initial_equity |-> InitialEquity * CentScale]]

\* lines 574-583: the literal metrics, trades and equity_curve
EmptyResponse ==
  [trades |-> <<>>,
   equity_curve |-> <<[date |-> NoDate, equity |-> InitialEquity * CentScale]>>,
   metrics |-> [total_pnl |-> 0, win_rate |-> 0,
                annualized_return |-> [pow |-> FALSE, num |-> 0, den |-> 1, days |-> 0],
                max_drawdown |-> 0,
                final_equity |-> InitialEquity * CentScale,
                initial_equity |-> InitialEquity * CentScale]]

\* lines 568-588: no candles, the canned response
NoData ==
  /\ pc = "start"
  /\ data = <<>>
  /\ pc' = "done"
  /\ trades' = EmptyResponse.trades
  /\ equity_curve' = EmptyResponse.equity_curve
  /\ metrics' = EmptyResponse.metrics
  /\ UNCHANGED <<inputs, i, pos, lastExit, log, entries, prev, others>>

\* lines 591-605: dispatch on the strategy tag and enter its loop
\* variant of Start: pos, lastExit and trades are module-level and keep
\* what the invocation before left in them
Start_KeepState ==
  /\ pc = "start"
  /\ data # <<>>
  /\ pc' = "loop"
  /\ i' = IF strategy = "mean_reversion" THEN lookback ELSE 1
  /\ log' = <<>>
  /\ entries' = 0
  /\ UNCHANGED <<inputs, pos, lastExit, trades, equity_curve, metrics, prev, others>>

\* entry of the run function: its locals are declared afresh
\* (lines 320, 356-358, 421-423, 486-488)
Start ==
  /\ pc = "start"
  /\ data # <<>>
  /\ pc' = "loop"
  /\ i' = IF strategy = "mean_reversion" THEN lookback ELSE 1
  /\ pos' = NoPos
  /\ lastExit' = NoExit
  /\ trades' = <<>>
  /\ log' = <<>>
  /\ entries' = 0
  /\ UNCHANGED <<inputs, equity_curve, metrics, prev, others>>

\* the loop condition of the running strategy
LoopBound == IF Dispatched = "legacy_absolute" THEN Len(data) - holdDays ELSE Len(data)

\* variant of Respond: a position left open is closed at the last close
Respond_Liquidate ==
  /\ pc = "loop"
  /\ i >= LoopBound
  /\ LET ts == IF pos.side # "none"
               THEN Push(trades, CloseTrade(data, pos, Len(data) - 1))
               ELSE trades
         r  == buildMetrics(ts, data, InitialEquity)
     IN  /\ trades' = ts
         /\ equity_curve' = r.equity_curve
         /\ metrics' = r.metrics
  /\ pc' = "done"
  /\ UNCHANGED <<inputs, i, pos, lastExit, log, entries, prev, others>>

\* line 607 and the return at 609-620
Respond ==
  /\ pc = "loop"
  /\ i >= LoopBound
  /\ LET r == buildMetrics(trades, data, InitialEquity)
     IN  /\ equity_curve' = r.equity_curve
         /\ metrics' = r.metrics
  /\ pc' = "done"
  /\ UNCHANGED <<inputs, i, pos, lastExit, trades, log, entries, prev, others>>

\* what the caller receives of the computation (lines 609-620)
Result == [trades |-> trades, equity_curve |-> equity_curve, metrics |-> metrics]

\* the same request arrives again: handleBacktest is entered anew with the
\* same body and the same candles; whatever the model's variables hold from
\* the first invocation is still there when it starts
Again ==
  /\ pc = "done"
  /\ prev = <<>>
  /\ prev' = <<Result>>
  /\ pc' = "start"
  /\ UNCHANGED <<inputs, i, pos, lastExit, trades, log, entries, equity_curve, metrics, others>>

\* the series without its last bar
Earlier(rs) ==
  LET last == SortByDate(rs)[Len(rs)]
      keep(r) == r # last
  IN  SelectSeq(rs, keep)

\* the same body arrives for a range that ends one bar earlier:
\* fetchCandles returns the same candles without the last one, and
\* handleBacktest is at line 566 of a new invocation
AgainEarlier ==
  /\ pc = "done"
  /\ prev = <<>>
  /\ data # <<>>
  /\ prev' = <<Result, log>>
  /\ rows' = Earlier(rows)
  /\ data' = SortByDate(Earlier(rows))
  /\ pc' = "start"
  /\ i' = 0
  /\ pos' = NoPos
  /\ lastExit' = NoExit
  /\ trades' = <<>>
  /\ log' = <<>>
  /\ entries' = 0
  /\ equity_curve' = <<>>
  /\ metrics' = NoMetrics
  /\ UNCHANGED <<strategy, threshold, hold_days, raw, others>>

(* -------------------------------- requests ---------------------------- *)

Allow == {<<TRUE, TRUE>>, <<TRUE, FALSE>>, <<FALSE, TRUE>>}
Reentry == {<<{}, {}>>, <<{}, {FALSE}>>, <<{1}, {}>>}
\* <<max_hold_days, take_profit_pct, stop_loss_pct>>
BreakoutHolds == {<<{1}, {}, {}>>, <<{2}, {}, {}>>, <<{2}, {0}, {0}>>}
MrHolds == {<<{}, {}, {}>>, <<{2}, {}, {}>>, <<{2}, {20000}, {10000}>>}

\* the params block the form submits
ParamBlock(lb, a, h, cr) ==
  [lookback |-> lb, threshold_pct |-> {}, atr_k |-> {}, drop_pct |-> {},
   allow_long |-> {a[1]}, allow_short |-> {a[2]},
   max_hold_days |-> h[1], take_profit_pct |-> h[2], stop_loss_pct |-> h[3],
   cooldown_days |-> cr[1], allow_immediate_reentry |-> cr[2]]

\* the state of handleBacktest at line 566, the rows d parsed and sorted
Request(s, thr, hd, r, d) ==
  /\ strategy = s
  /\ threshold = thr
  /\ hold_days = hd
  /\ raw = r
  /\ rows = d
  /\ data = SortByDate(d)
  /\ pc = "start"
  /\ i = 0
  /\ pos = NoPos
  /\ lastExit = NoExit
  /\ trades = <<>>
  /\ log = <<>>
  /\ entries = 0
  /\ equity_curve = <<>>
  /\ metrics = NoMetrics
  /\ prev = <<>>
  /\ Handling("backtest")
  /\ AppMounted

LegacyRequest ==
  \/ \E thr \in LegacyThresholds, h \in {{1}, {3}}, cs \in SeqsUpTo(LegacyLevels, MaxLen) :
       Request("legacy_absolute", thr, h, NoParams, MkBars(cs, 0))
  \/ \E thr \in LegacyThresholds :
       Request("legacy_absolute", thr, {1}, NoParams, MkBars(ScenarioCloses, 0))

PctRequest ==
  \E a \in Allow, h \in BreakoutHolds, cr \in Reentry, x \in {{}, {50000}},
     cs \in SeqsUpTo(AdaptiveLevels, MaxLenPct) :
       Request("breakout_pct", 0, {},
               [ParamBlock({}, a, h, cr) EXCEPT !.threshold_pct = x], MkBars(cs, 0))

MrRequest ==
  \E a \in Allow, h \in MrHolds, cr \in Reentry, x \in {{}, {50000}},
     w \in {<<>>, Warm(5)}, cs \in SeqsUpTo(AdaptiveLevels, MaxTail) :
       Request("mean_reversion", 0, {},
               [ParamBlock({5}, a, h, cr) EXCEPT !.drop_pct = x], MkBars(w \o cs, 0))

AtrRequest ==
  \E a \in Allow, h \in BreakoutHolds, cr \in Reentry, x \in {{}, {50}},
     w \in {<<>>, Warm(9)}, sp \in BarSpreads, cs \in SeqsUpTo(AdaptiveLevels, MaxTail) :
       Request("breakout_atr", 0, {},
               [ParamBlock({10}, a, h, cr) EXCEPT !.atr_k = x], MkBars(w \o cs, sp))

\* sources whose rows are not in strictly ascending date order
UnorderedRequest ==
  \E thr \in LegacyThresholds, ds \in DateOrders, cs \in [1..3 -> LegacyLevels] :
    Request("legacy_absolute", thr, {1}, NoParams, MkRows(cs, ds, 0))

\* candles of tryYahoo with null quotes among them
NullCloseRequest ==
  \/ \E h \in BreakoutHolds, x \in {{}, {10000}}, cs \in SeqsUpTo(NullCloseLevels, MaxLenPct) :
       Request("breakout_pct", 0, {},
               [ParamBlock({}, <<TRUE, TRUE>>, h, <<{}, {}>>) EXCEPT !.threshold_pct = x],
               MkBars(cs, 0))
  \/ \E h \in MrHolds, cs \in SeqsUpTo(NullCloseLevels, MaxTail) :
       Request("mean_reversion", 0, {},
               [ParamBlock({5}, <<TRUE, TRUE>>, h, <<{}, {}>>) EXCEPT !.drop_pct = {50000}],
               MkBars(Nulls(5) \o cs, 0))

\* bodies without params.strategy or with a tag the Worker does not know,
\* with and without fields meant for another strategy
FallbackRequest ==
  \E t \in Tags \ STRATEGIES, thr \in LegacyThresholds, h \in {{}, {1}},
     r \in {NoParams, ParamBlock({5}, <<TRUE, TRUE>>, <<{2}, {}, {}>>, <<{}, {}>>)},
     cs \in SeqsUpTo(LegacyLevels, MaxLenPct) :
    Request(t, thr, h, r, MkBars(cs, 0))

\* long-only runs on a series that crashes
CrashRequest ==
  \/ \E thr \in LegacyThresholds, cs \in SeqsUpTo(CrashLevels, MaxLen) :
       Request("legacy_absolute", thr, {1}, NoParams, MkBars(cs, 0))
  \/ \E h \in BreakoutHolds, cs \in SeqsUpTo(CrashLevels, MaxLenPct) :
       Request("breakout_pct", 0, {},
               [ParamBlock({}, <<TRUE, FALSE>>, h, <<{}, {}>>) EXCEPT !.threshold_pct = {10000}],
               MkBars(cs, 0))

Init ==
  \/ CrashRequest
  \/ FallbackRequest
  \/ LegacyRequest
  \/ PctRequest
  \/ MrRequest
  \/ AtrRequest
  \/ UnorderedRequest
  \/ NullCloseRequest

Next ==
  \/ NoData
  \/ Start
  \/ LegacyStep
  \/ BreakoutPctStep
  \/ BreakoutAtrStep
  \/ MeanReversionStep
  \/ Respond
  \/ Again
  \/ AgainEarlier

Spec == Init /\ [][Next]_vars

\* a request arrives at fetch; handleBacktest has not been entered
\* handleBacktest has not been entered
NotEntered ==
  /\ strategy = Undefined
  /\ threshold = 0
  /\ hold_days = {}
  /\ raw = NoParams
  /\ rows = <<>>
  /\ data = <<>>
  /\ pc = "start"
  /\ i = 0
  /\ pos = NoPos
  /\ lastExit = NoExit
  /\ trades = <<>>
  /\ log = <<>>
  /\ entries = 0
  /\ equity_curve = <<>>
  /\ metrics = NoMetrics
  /\ prev = <<>>

WorkerInit ==
  /\ req \in Requests
  /\ wpc = "recv"
  /\ responses = <<>>
  /\ NotEntered
  /\ AppMounted

WorkerNext ==
  \/ Route
  \/ ParseBody
  \/ Dispatch
  \/ HandlerReturns
  \/ HandlerThrows

WorkerSpec == WorkerInit /\ [][WorkerNext]_vars

\* the App has mounted; the Worker is not modelled further than a request
\* waiting at fetch
AppInit ==
  /\ AppMounted
  /\ req = [method |-> "GET", path |-> <<"status">>, bodyParses |-> FALSE,
            handlerThrows |-> FALSE]
  /\ wpc = "recv"
  /\ responses = <<>>
  /\ NotEntered

AppNext ==
  \/ SetSymbol
  \/ DoPeek
  \/ PeekResolves
  \/ PeekRejects
  \/ DoBacktest
  \/ DoBacktestInvalid
  \/ BacktestResolves
  \/ BacktestRejects

AppSpec == AppInit /\ [][AppNext]_vars

TypeOK ==
  /\ strategy \in Tags
  /\ pc \in {"start", "loop", "done"}
  /\ Len(log) = Len(trades)

(* ================================ claims ============================== *)

Done == pc = "done"
Adaptive == strategy \in {"breakout_pct", "breakout_atr", "mean_reversion"}

\* trades a and b cover no common bar
Disjoint(a, b) == a.exitIdx < b.entryIdx \/ b.exitIdx < a.entryIdx

\* C1 (as stated): in the trade list of runBreakoutPct, runBreakoutAtr or
\* runMeanReversion no bar index lies in the closed range [entry, exit] of
\* two different trades.
C1_RangesDisjoint ==
  Adaptive =>
    \A a, b \in 1..Len(log) : a # b => Disjoint(log[a], log[b])

\* C1 (amended): two trades of the three position loops share at most one
\* bar, the bar on which the earlier one exits and the later one enters:
\* every trade exits after it enters and a later trade enters no earlier
\* than the exit of every earlier one; when allow_immediate_reentry is false
\* or cooldown_days > 0 it enters strictly later and the ranges are disjoint.
C1_RangesShareAtMostExitBar ==
  Adaptive =>
    /\ \A a \in 1..Len(log) : log[a].entryIdx < log[a].exitIdx
    /\ \A a, b \in 1..Len(log) :
         a < b =>
           /\ log[a].exitIdx <= log[b].entryIdx
           /\ (~allow_immediate_reentry \/ cooldown_days > 0) => Disjoint(log[a], log[b])

C1_Witness ==
  /\ Adaptive
  /\ Len(log) >= 2
  /\ log[2].entryIdx = log[1].exitIdx

\* C2: runLegacyAbsolute never enters a trade at a bar strictly between the
\* entry bar and the exit bar of an earlier trade.
C2_LegacyOnePosition ==
  strategy = "legacy_absolute" =>
    \A a, b \in 1..Len(log) :
      a < b => ~(log[a].entryIdx < log[b].entryIdx /\ log[b].entryIdx < log[a].exitIdx)

\* C3: for a non-empty series the equity curve buildMetrics returns has
\* trades.length + 1 points and starts with (date of bar 0, 1000.00).
C3_CurveLength ==
  (Done /\ data # <<>>) =>
    /\ Len(equity_curve) = Len(trades) + 1
    /\ equity_curve[1] = [date |-> data[1].date, equity |-> InitialEquity * CentScale]

C3_Witness ==
  /\ Done
  /\ Len(trades) >= 2
  /\ \E k \in 1..Len(trades) : trades[k].return_pct = 0

\* e2 is e * (1 + r/10^6) rounded to the nearest cent, ties upward, for e > 0
NearestCent(e2, e, r) ==
  LET x == e2 - e
  IN  IF r >= 0
      THEN /\ x >= 0
           /\ (x = 0 \/ ~FracGT(2 * x - 1, 2 * e, r, Micro))
           /\ FracGT(2 * x + 1, 2 * e, r, Micro)
      ELSE /\ x <= 0
           /\ (x = 0 \/ FracGT(-r, Micro, -2 * x - 1, 2 * e))
           /\ ~FracGT(-r, Micro, -2 * x + 1, 2 * e)

\* C4: the k-th point after the seed carries the exit date of the k-th trade
\* and the previous point's equity times (1 + return_pct), to 2 decimals;
\* there are no other points.
C4_CompoundOnExits ==
  (Done /\ data # <<>>) =>
    /\ Len(equity_curve) = Len(trades) + 1
    /\ \A k \in 1..Len(trades) :
         /\ equity_curve[k + 1].date = trades[k].exit_date
         /\ (IsFinite(equity_curve[k].equity) /\ IsFinite(trades[k].return_pct)) =>
              /\ equity_curve[k].equity > 0
              /\ IsFinite(equity_curve[k + 1].equity)
              /\ NearestCent(equity_curve[k + 1].equity, equity_curve[k].equity,
                             trades[k].return_pct)

C4_Witness ==
  /\ Done
  /\ Len(trades) >= 2
  /\ trades[1].return_pct # 0
  /\ trades[2].return_pct # 0
  /\ equity_curve[3].equity # equity_curve[1].equity + (trades[1].return_pct + trades[2].return_pct) \div 10

\* C5: for every emitted trade, short: pnl > 0 iff exit_price < entry_price;
\* long (every legacy trade included): pnl > 0 iff exit_price > entry_price.
C5_ReturnSign ==
  \A k \in 1..Len(trades) :
    IF log[k].side = "short"
    THEN (trades[k].pnl > 0) <=> (trades[k].exit_price < trades[k].entry_price)
    ELSE (trades[k].pnl > 0) <=> (trades[k].exit_price > trades[k].entry_price)

\* number of trades with pnl > 0, counted on the response
WinCount == Cardinality({k \in 1..Len(trades) : trades[k].pnl > 0})

\* C6 (as stated): win_rate equals wins / trades, is 0 for an empty trade
\* list and lies in [0, 1].
C6_WinRateExact ==
  Done =>
    /\ metrics.win_rate * Len(trades) = WinCount * Micro
    /\ (trades = <<>> => metrics.win_rate = 0)
    /\ 0 <= metrics.win_rate /\ metrics.win_rate <= Micro

\* C6 (amended): win_rate equals wins / trades rounded to 6 decimals, is 0
\* for an empty trade list and lies in [0, 1].
C6_WinRateRounded ==
  Done =>
    /\ 2 * Abs(metrics.win_rate * Len(trades) - WinCount * Micro) <= Len(trades)
    /\ (trades = <<>> => metrics.win_rate = 0)
    /\ 0 <= metrics.win_rate /\ metrics.win_rate <= Micro

C6_Witness ==
  /\ Done
  /\ Len(trades) = 3
  /\ WinCount = 1

NonDecreasing(curve) == \A k \in 1..(Len(curve) - 1) : curve[k].equity <= curve[k + 1].equity

\* C7: max_drawdown is never negative and is 0 whenever the equity curve is
\* non-decreasing from its first to its last point.
C7_DrawdownBound ==
  Done =>
    /\ metrics.max_drawdown >= 0
    /\ NonDecreasing(equity_curve) => metrics.max_drawdown = 0

C7_Witness ==
  /\ Done
  /\ Len(trades) >= 2
  /\ NonDecreasing(equity_curve)
  /\ equity_curve[Len(equity_curve)].equity > equity_curve[1].equity

ScenarioResult ==
  <<[entry_date |-> 3, entry_price |-> 1100, exit_date |-> 4, exit_price |-> 1200,
     pnl |-> 100, return_pct |-> 90909]>>

IsScenario == Closes(data) = ScenarioCloses /\ threshold = 10000 /\ holdDays = 1

\* what C8 says of legacy trade k, pnl left aside
LegacyShape(k) ==
  /\ log[k].side = "long"
  /\ log[k].entryIdx >= 1
  /\ At(data, log[k].entryIdx - 1).close < threshold
  /\ threshold <= At(data, log[k].entryIdx).close
  /\ log[k].exitIdx = log[k].entryIdx + holdDays
  /\ log[k].entryPx = At(data, log[k].entryIdx).close
  /\ log[k].exitPx = At(data, log[k].exitIdx).close
  /\ trades[k].entry_date = At(data, log[k].entryIdx).date
  /\ trades[k].exit_date = At(data, log[k].exitIdx).date

\* C8 (as stated): every legacy trade enters at a cross from below, is long,
\* exits holdDays bars later and has pnl = exit close - entry close; closes
\* [10, 9, 11, 12, 8] with threshold 10 and holdDays 1 give exactly the one
\* trade 11 -> 12 with pnl +1.
C8_LegacyTradeExact ==
  strategy = "legacy_absolute" =>
    /\ \A k \in 1..Len(trades) :
         /\ LegacyShape(k)
         /\ trades[k].pnl * (PriceScale \div CentScale) = log[k].exitPx - log[k].entryPx
    /\ (Done /\ IsScenario) => trades = ScenarioResult

\* C8 (amended): as stated, with pnl = exit close - entry close rounded to
\* 2 decimals.
C8_LegacyTradeRounded ==
  strategy = "legacy_absolute" =>
    /\ \A k \in 1..Len(trades) :
         /\ LegacyShape(k)
         /\ 2 * Abs(trades[k].pnl * (PriceScale \div CentScale) - (log[k].exitPx - log[k].entryPx))
              <= PriceScale \div CentScale
    /\ (Done /\ IsScenario) => trades = ScenarioResult

C8_Witness == Done /\ strategy = "legacy_absolute" /\ IsScenario /\ Len(trades) = 1

\* an iteration of a position loop is being taken
LoopStep(s) == pc = "loop" /\ strategy = s /\ i < Len(data) /\ i' = i + 1

\* entry is permitted at bar i of that iteration: no position is left open
\* after the exit phase and the re-entry and cooldown policy allows it
Permitted ==
  /\ pos.side = "none" \/ Len(trades') > Len(trades)
  /\ allow_immediate_reentry \/ i > lastExit'
  /\ cooldown_days = 0 \/ i - lastExit' > cooldown_days

Opened(side) == pos'.side = side /\ pos'.entryIdx = i

\* the closes at bar indices lo..hi
Window(lo, hi) == {At(data, k).close : k \in lo..hi}

\* C9: with threshold_pct supplied, at a bar i where entry is permitted a
\* long is opened iff allowLong and close[i] > up*(1+eps), else a short iff
\* allowShort and close[i] < dn*(1-eps), up/dn the max/min of the closes at
\* max(0, i-lookback)..i-1, lookback and eps = thresholdPct as supplied.
C9_PctEntryAsSupplied ==
  [][(LoopStep("breakout_pct") /\ raw.threshold_pct # {} /\ Permitted) =>
       LET c   == At(data, i).close
           lb  == Nullish(raw.lookback, 20)
           eps == Nullish(raw.threshold_pct, 0)
           up  == SetMax(Window(Max(0, i - lb), i - 1))
           dn  == SetMin(Window(Max(0, i - lb), i - 1))
           goL == allow_long /\ RatioGT(c - up, up, eps)
           goS == allow_short /\ RatioGT(dn - c, dn, eps)
       IN  /\ Opened("long") <=> goL
           /\ Opened("short") <=> (~goL /\ goS)]_vars

\* C10: with drop_pct supplied, at a bar i where entry is permitted a long
\* is opened iff allowLong and close[i] <= m*(1-d), else a short iff
\* allowShort and close[i] >= m*(1+d), m the mean of the closes at
\* max(0, i-lookback+1)..i, d = dropPct as supplied.
C10_MrEntryAsSupplied ==
  [][(LoopStep("mean_reversion") /\ raw.drop_pct # {} /\ Permitted) =>
       LET c   == At(data, i).close
           lb  == Nullish(raw.lookback, 20)
           d   == Nullish(raw.drop_pct, 0)
           lo  == Max(0, i - lb + 1)
           n   == i - lo + 1
           sum == SumSeq([k \in 1..n |-> At(data, lo + k - 1).close])
           goL == allow_long /\ RatioGE(sum - c * n, sum, d)
           goS == allow_short /\ RatioGE(c * n - sum, sum, d)
       IN  /\ Opened("long") <=> goL
           /\ Opened("short") <=> (~goL /\ goS)]_vars

\* the trade appended by the step closes the position that was open, at bar i
ClosedHere ==
  /\ Len(trades') = Len(trades) + 1
  /\ Len(log') = Len(log) + 1
  /\ log'[Len(log')].entryIdx = pos.entryIdx
  /\ log'[Len(log')].exitIdx = i
  /\ log'[Len(log')].side = pos.side
  /\ pos' # pos

\* C11: in runMeanReversion, at every bar i with a position open, a long is
\* closed if close[i] >= SMA at i and a short if close[i] <= SMA at i,
\* whatever max-hold, take-profit and stop-loss say; the position does not
\* stay open past that bar.
C11_MeanTouchExit ==
  [][(LoopStep("mean_reversion") /\ pos.side # "none") =>
       LET c   == At(data, i).close
           lo  == Max(0, i - lookback + 1)
           n   == i - lo + 1
           sum == SumSeq([k \in 1..n |-> At(data, lo + k - 1).close])
           touch == \/ pos.side = "long" /\ c * n >= sum
                    \/ pos.side = "short" /\ c * n <= sum
       IN  touch => ClosedHere]_vars

C11_Witness ==
  /\ strategy = "mean_reversion"
  /\ max_hold_days = 2
  /\ take_profit_pct = 0
  /\ stop_loss_pct = 0
  /\ \E k \in 1..Len(log) : log[k].exitIdx - log[k].entryIdx = 1

\* an iteration of one of the three position loops is being taken
AdaptiveStep == Adaptive /\ pc = "loop" /\ i < Len(data) /\ i' = i + 1

\* bars between each exit and the next entry, the open position included
GapsRespectPolicy ==
  /\ \A k \in 2..Len(log) :
       LET gap == log[k].entryIdx - log[k - 1].exitIdx
       IN  /\ cooldown_days > 0 => gap > cooldown_days
           /\ ~allow_immediate_reentry => gap > 0
  /\ (pos.side # "none" /\ Len(log) > 0) =>
       LET gap == pos.entryIdx - log[Len(log)].exitIdx
       IN  /\ cooldown_days > 0 => gap > cooldown_days
           /\ ~allow_immediate_reentry => gap > 0

\* C12: in the three position loops a position is opened at bar i only if
\* none is open and (allow_immediate_reentry or i > lastExit) and
\* (cooldown_days = 0 or i - lastExit > cooldown_days); so between two
\* consecutive trades next entry - previous exit is > cooldown_days when
\* cooldown_days > 0 and > 0 when allow_immediate_reentry is false.
C12_EntryPermission ==
  [][/\ (AdaptiveStep /\ pos'.side # "none" /\ pos'.entryIdx = i) => Permitted
     /\ Adaptive => GapsRespectPolicy']_vars

\* a breakout signal fired on bar 3, one bar after the exit at bar 2, and the
\* cooldown of one bar kept the loop flat
C12_Witness ==
  /\ strategy = "breakout_pct"
  /\ cooldown_days = 1
  /\ pc = "loop"
  /\ lastExit = 2
  /\ i = 4
  /\ pos = NoPos
  /\ (PctLong(data, 3) \/ PctShort(data, 3))

\* C13: at each bar i with a position entered at bar e < i open, the
\* position is closed iff a strategy-specific exit fires or i - e >=
\* max_hold_days or (take-profit on and the direction-adjusted return at
\* close[i] >= take_profit_pct) or (stop-loss on and that return <=
\* -stop_loss_pct); closing appends exactly one trade (entry date/price of bar
\* e, exit date/price of bar i), empties the slot for the entry phase of the
\* same bar and sets lastExit to i; otherwise position, trade list and
\* lastExit are unchanged.
C13_ExitTransition ==
  [][(AdaptiveStep /\ pos.side # "none") =>
       LET c     == At(data, i).close
           e     == pos.entryIdx
           px    == At(data, e).close
           ret   == (c - px) * (IF pos.side = "long" THEN 1 ELSE -1)
           lo    == Max(0, i - lookback + 1)
           n     == i - lo + 1
           sum   == SumSeq([k \in 1..n |-> At(data, lo + k - 1).close])
           touch == /\ strategy = "mean_reversion"
                    /\ \/ pos.side = "long" /\ c * n >= sum
                       \/ pos.side = "short" /\ c * n <= sum
           close == \/ touch
                    \/ i - e >= max_hold_days
                    \/ take_profit_pct # 0 /\ RatioGE(ret, px, take_profit_pct)
                    \/ stop_loss_pct # 0 /\ RatioGE(-ret, px, stop_loss_pct)
       IN  /\ e < i
           /\ pos.entryPx = px
           /\ IF close
              THEN /\ Len(trades') = Len(trades) + 1
                   /\ SubSeq(trades', 1, Len(trades)) = trades
                   /\ LET t == trades'[Len(trades')]
                      IN  /\ t.entry_date = At(data, e).date
                          /\ t.entry_price = RoundDiv(px * CentScale, PriceScale)
                          /\ t.exit_date = At(data, i).date
                          /\ t.exit_price = RoundDiv(c * CentScale, PriceScale)
                   /\ lastExit' = i
                   /\ pos' = NoPos \/ pos'.entryIdx = i
              ELSE /\ pos' = pos
                   /\ trades' = trades
                   /\ lastExit' = lastExit]_vars

\* a breakout position stopped out after one bar, before max_hold_days
C13_Witness ==
  /\ strategy = "breakout_pct"
  /\ max_hold_days = 2
  /\ stop_loss_pct # 0
  /\ \E k \in 1..Len(log) :
       /\ log[k].exitIdx - log[k].entryIdx = 1
       /\ trades[k].return_pct <= -stop_loss_pct

\* C14: a series with fewer bars than the strategy's effective lookback
\* produces no entry signal and an empty trade list.
C14_ShortSeriesNoSignal ==
  (Adaptive /\ Len(data) < lookback) => (entries = 0 /\ trades = <<>>)

\* C15: an empty price series yields, for every strategy and parameter set,
\* trades = [], equity_curve = [{date: "", equity: 1000}] and metrics
\* total_pnl = win_rate = annualized_return = max_drawdown = 0 with
\* final_equity = initial_equity = 1000.
C15_EmptySeries ==
  (Done /\ data = <<>>) =>
    /\ trades = <<>>
    /\ Len(equity_curve) = 1
    /\ equity_curve[1].date = NoDate
    /\ equity_curve[1].equity = 1000 * CentScale
    /\ metrics.total_pnl = 0
    /\ metrics.win_rate = 0
    /\ ~metrics.annualized_return.pow
    /\ metrics.max_drawdown = 0
    /\ metrics.final_equity = 1000 * CentScale
    /\ metrics.initial_equity = 1000 * CentScale

C15_Witness ==
  /\ Done
  /\ data = <<>>
  /\ strategy = "breakout_atr"
  /\ raw.atr_k # {}
  /\ raw.allow_long = {FALSE}

StrictlyAscending(rs) == \A k \in 1..(Len(rs) - 1) : rs[k].date < rs[k + 1].date

\* C16: a price series whose dates are not strictly ascending is a hard
\* failure: no trades, equity curve or metrics are computed from it and
\* returned.
C16_NonAscendingRejected ==
  ~StrictlyAscending(rows) => (pc # "done" /\ trades = <<>>)

\* C17: no NaN or Infinity appears in an emitted trade: entry_price,
\* exit_price, pnl and return_pct of every emitted trade are finite.
C17_TradesFinite ==
  \A k \in 1..Len(trades) :
    /\ IsFinite(trades[k].entry_price)
    /\ IsFinite(trades[k].exit_price)
    /\ IsFinite(trades[k].pnl)
    /\ IsFinite(trades[k].return_pct)

\* C18: in runBreakoutAtr, at a bar i where entry is permitted, a position
\* is opened only if ATR[i] is finite; then a long iff allowLong and
\* close[i] > up + atrK*ATR[i], else a short iff allowShort and
\* close[i] < dn - atrK*ATR[i], up/dn the max/min of the closes strictly
\* before bar i within the lookback window; no entry occurs before the ATR
\* seed index lookback - 1.  ATR[i] is num/den mills, atrK is in hundredths.
C18_AtrEntry ==
  [][(LoopStep("breakout_atr") /\ Permitted) =>
       LET c   == At(data, i).close
           a   == At(atrWilder(data, lookback), i)
           up  == SetMax(Window(Max(0, i - lookback), i - 1))
           dn  == SetMin(Window(Max(0, i - lookback), i - 1))
           goL == allow_long /\ a.fin /\ (c - up) * 100 * a.den > atr_k * a.num
           goS == allow_short /\ a.fin /\ (dn - c) * 100 * a.den > atr_k * a.num
       IN  /\ Opened("long") <=> goL
           /\ Opened("short") <=> (~goL /\ goS)
           /\ (Opened("long") \/ Opened("short")) => (a.fin /\ i >= lookback - 1)]_vars

\* a short opened on the bar after the ATR seed, with atr_k supplied
C18_Witness ==
  /\ strategy = "breakout_atr"
  /\ raw.atr_k # {}
  /\ pos.side = "short"
  /\ pos.entryIdx = lookback

\* entry dates, exit dates and curve dates do not decrease along the lists
Chronological ==
  /\ \A k \in 1..(Len(trades) - 1) :
       /\ trades[k].entry_date <= trades[k + 1].entry_date
       /\ trades[k].exit_date <= trades[k + 1].exit_date
  /\ \A k \in 1..(Len(equity_curve) - 1) :
       equity_curve[k].date <= equity_curve[k + 1].date

\* within one invocation the trade list only grows at its end, by one trade,
\* and in the position loops exactly when the open position closes
AppendOnly ==
  /\ \/ trades' = trades
     \/ /\ Len(trades') = Len(trades) + 1
        /\ SubSeq(trades', 1, Len(trades)) = trades
  /\ (Adaptive /\ pc = "loop" /\ pc' = "loop") =>
       ((Len(trades') = Len(trades) + 1) <=> (pos.side # "none" /\ pos' # pos))

\* C19: given strictly ascending bar dates, each closed position yields
\* exactly one trade, appended when it closes; entry dates and exit dates are
\* non-decreasing along the trade list; an appended trade is never modified;
\* the equity curve's dates are non-decreasing.
C19_Chronological ==
  [][StrictlyAscending(data) =>
       /\ Chronological'
       /\ (pc # "start" /\ pc' # "start") => AppendOnly]_vars

C19_Witness ==
  /\ Done
  /\ Adaptive
  /\ StrictlyAscending(data)
  /\ Len(trades) >= 2
  /\ Len(equity_curve) >= 3
  /\ trades[1].exit_date = trades[2].entry_date

\* the trades built so far are the first trades of the invocation before
PrefixOfPrev ==
  /\ Len(trades) <= Len(prev[1].trades)
  /\ trades = SubSeq(prev[1].trades, 1, Len(trades))

\* C20: a second invocation on the same price series and parameters returns
\* the same trades, equity curve and metrics as the first, and nothing of the
\* first invocation (pos, lastExit, the trade list) is visible in it: while
\* it runs, its trade list is a prefix of the first invocation's.
C20_Idempotent ==
  Len(prev) = 1 =>
    /\ Done => Result = prev[1]
    /\ pc = "loop" => PrefixOfPrev
    /\ (pc = "loop" /\ i = (IF strategy = "mean_reversion" THEN lookback ELSE 1)) =>
         (pos = NoPos /\ lastExit = NoExit /\ trades = <<>>)

C20_Witness ==
  /\ Done
  /\ Len(prev) = 1
  /\ Adaptive
  /\ Len(trades) >= 2
  /\ pos.side # "none"

\* the status the routing table of fetch gives a request
Expected(r) ==
  IF r.method = "OPTIONS" THEN 200
  ELSE IF r.method = "GET" /\ r.path \in {<<"about">>, <<"">>, <<"status">>} THEN 200
  ELSE IF r.method # "POST" THEN 405
  ELSE IF ~r.bodyParses THEN 400
  ELSE IF r.path[Len(r.path)] \notin {"peek", "backtest"} THEN 404
  ELSE IF r.handlerThrows THEN 500
  ELSE 200

\* C21: fetch answers every request once: OPTIONS with 200; GET /about, GET /
\* and GET /status with 200 JSON carrying ok: true; another non-POST with 405;
\* a POST whose body does not parse with 400; a POST to a path ending in
\* /peek or /backtest with 200 JSON, or 500 JSON with a detail when the
\* handler throws; a POST to another path with 404.
C21_OneResponse ==
  /\ Len(responses) <= 1
  /\ (wpc = "sent") <=> (Len(responses) = 1)
  /\ wpc # "sent" => ENABLED WorkerNext
  /\ wpc = "sent" =>
       LET r == responses[1]
       IN  /\ r.status = Expected(req)
           /\ (req.method = "GET" /\ r.status = 200) => (r.kind = "json" /\ r.ok)
           /\ (req.method = "POST" /\ r.status = 200) => r.kind = "json"
           /\ (r.status = 500) => (r.kind = "json" /\ r.detail)
           /\ r.detail => r.status = 500

C21_Witness ==
  /\ wpc = "sent"
  /\ req.method = "POST"
  /\ req.path = <<"api", "backtest">>
  /\ responses[1].status = 200

\* Wilder's average true range as an exact fraction: NaN before index p - 1,
\* the simple average of tr[0..p-1] at p - 1, and from p on
\* (atr[k-1] * (p - 1) + tr[k]) / p
Wilder(b, p) ==
  LET tr == TrueRange(b)
      w[k \in 0..(Len(b) - 1)] ==
        IF k < p - 1 THEN [fin |-> FALSE, num |-> 0, den |-> 1]
        ELSE IF k = p - 1
        THEN [fin |-> TRUE, num |-> SumSeq(SubSeq(tr, 1, p)), den |-> p]
        ELSE [fin |-> TRUE,
              num |-> w[k - 1].num * (p - 1) + At(tr, k) * w[k - 1].den,
              den |-> w[k - 1].den * p]
  IN  [k \in 1..Len(b) |-> w[k - 1]]

\* the same number, NaN matching NaN only
SameFraction(x, y) ==
  /\ x.fin = y.fin
  /\ x.fin => x.num * y.den = y.num * x.den

\* C22: atrWilder(bars, p) is NaN below index p - 1, the simple average of
\* tr[0..p-1] at index p - 1, and (atr[i-1] * (p - 1) + tr[i]) / p at every
\* index i >= p.
C22_WilderRecursion ==
  strategy = "breakout_atr" =>
    \A k \in 1..Len(data) :
      SameFraction(atrWilder(data, lookback)[k], Wilder(data, lookback)[k])

PositiveCloses == \A k \in 1..Len(data) : data[k].close > 0

\* the long and the short entry condition of the running strategy at bar i
GoLong ==
  CASE strategy = "breakout_pct"   -> PctLong(data, i)
    [] strategy = "breakout_atr"   -> AtrLong(data, i)
    [] strategy = "mean_reversion" -> MrLong(data, i)

GoShort ==
  CASE strategy = "breakout_pct"   -> PctShort(data, i)
    [] strategy = "breakout_atr"   -> AtrShort(data, i)
    [] strategy = "mean_reversion" -> MrShort(data, i)

\* C23: in runBreakoutPct, runBreakoutAtr and runMeanReversion the long and
\* the short entry condition are never both true at a bar of a series of
\* positive closes; at a bar where both are true and entry is permitted a
\* long is opened, never a short.
C23_LongShortExclusive ==
  [][AdaptiveStep =>
       /\ PositiveCloses => ~(GoLong /\ GoShort)
       /\ (Permitted /\ GoLong /\ GoShort) => Opened("long")
       /\ Opened("short") => ~GoLong]_vars

\* both conditions were true at the bar where the open long was entered
C23_Witness ==
  /\ Adaptive
  /\ allow_long /\ allow_short
  /\ pos.side = "long"
  /\ pc = "loop"
  /\ i = pos.entryIdx + 1
  /\ LET k == pos.entryIdx
     IN  IF strategy = "mean_reversion" THEN MrLong(data, k) /\ MrShort(data, k)
         ELSE IF strategy = "breakout_pct" THEN PctLong(data, k) /\ PctShort(data, k)
         ELSE AtrLong(data, k) /\ AtrShort(data, k)

\* the loops of which this step is an iteration
Ran ==
  {s \in STRATEGIES :
     CASE s = "legacy_absolute" -> LegacyStep
       [] s = "breakout_pct"    -> BreakoutPctStep
       [] s = "breakout_atr"    -> BreakoutAtrStep
       [] s = "mean_reversion"  -> MeanReversionStep}

\* the tag names one of the four strategies
Named == strategy \in STRATEGIES

\* the trades are those of runLegacyAbsolute on body.threshold and
\* body.hold_days: one per cross from below at a bar the loop has passed,
\* in bar order, and every bar is passed when the response is built
LegacyOutput ==
  /\ pos = NoPos /\ lastExit = NoExit
  /\ Done => i >= Len(data) - holdDays
  /\ \A k \in 1..Len(trades) : LegacyShape(k)
  /\ \A b \in 1..(i - 1) :
       (At(data, b - 1).close < threshold /\ threshold <= At(data, b).close)
         => \E k \in 1..Len(log) : log[k].entryIdx = b
  /\ \A k \in 1..(Len(log) - 1) : log[k].entryIdx < log[k + 1].entryIdx

\* C24: handleBacktest runs one strategy, the one params.strategy names; for
\* a missing or unknown tag it runs runLegacyAbsolute on body.threshold and
\* body.hold_days; the equity curve and the metrics are buildMetrics of the
\* trades with initial equity 1000.
C24_Dispatch ==
  [][/\ (pc = "loop" /\ pc' = "loop") =>
          Ran = {IF Named THEN strategy ELSE "legacy_absolute"}
     /\ (pc' # "start" /\ data # <<>> /\ ~Named) => LegacyOutput'
     /\ (pc = "loop" /\ pc' = "done") =>
          /\ [equity_curve |-> equity_curve', metrics |-> metrics']
               = buildMetrics(trades, data, 1000)
          /\ metrics'.initial_equity = 1000 * CentScale]_vars

C24_Witness ==
  /\ Done
  /\ strategy = "momentum"
  /\ raw # NoParams
  /\ prev = <<>>
  /\ Len(trades) >= 1

\* C25: a non-null result (and a non-null peek) of the App was produced by a
\* request issued while symbol had its current value; a response to a
\* request issued for an earlier symbol is never stored.
C25_ResultIsCurrent ==
  /\ result # <<>> => result[1] = symbol
  /\ peek # <<>> => peek[1] = symbol

\* bars from entry to exit of trade k
Held(k) == log[k].exitIdx - log[k].entryIdx

\* C26: every trade of the three position loops has 1 <= exit index - entry
\* index <= max_hold_days (the effective value, max(1, supplied)); an open
\* position was entered on an earlier bar and has been held for fewer than
\* max_hold_days bars when the next bar is examined; every legacy trade has
\* exit index - entry index = holdDays.
C26_HoldingPeriod ==
  /\ Adaptive =>
       /\ \A k \in 1..Len(log) : 1 <= Held(k) /\ Held(k) <= max_hold_days
       /\ (pc = "loop" /\ pos.side # "none") =>
            (pos.entryIdx < i /\ i - pos.entryIdx <= max_hold_days)
  /\ ~Adaptive => \A k \in 1..Len(log) : Held(k) = holdDays

C26_Witness ==
  /\ Done
  /\ Adaptive
  /\ max_hold_days = 2
  /\ stop_loss_pct # 0
  /\ \E k \in 1..Len(log) : Held(k) = 2

\* trade k left at a close that reached the take-profit or the stop-loss, or,
\* in runMeanReversion, that touched the mean of the exit bar
Justified(k) ==
  LET e   == log[k]
      num == (e.exitPx - e.entryPx) * (IF e.side = "long" THEN 1 ELSE -1)
      m   == sma(Closes(data), lookback, e.exitIdx)
  IN  \/ take_profit_pct # 0 /\ RatioGE(num, e.entryPx, take_profit_pct)
      \/ stop_loss_pct # 0 /\ RatioGE(-num, e.entryPx, stop_loss_pct)
      \/ /\ strategy = "mean_reversion"
         /\ m.n > 0
         /\ \/ e.side = "long" /\ e.exitPx * m.n >= m.sum
            \/ e.side = "short" /\ e.exitPx * m.n <= m.sum

\* C27: a trade of runBreakoutPct or runBreakoutAtr that lasted fewer than
\* max_hold_days bars left at a return >= take_profit_pct (when non-zero) or
\* <= -stop_loss_pct (when non-zero); with both zero every such trade lasts
\* max_hold_days bars; in runMeanReversion the only further cause of an
\* early exit is the close touching the mean.
C27_EarlyExitJustified ==
  Adaptive =>
    /\ \A k \in 1..Len(log) : Held(k) < max_hold_days => Justified(k)
    /\ (strategy # "mean_reversion" /\ take_profit_pct = 0 /\ stop_loss_pct = 0) =>
         \A k \in 1..Len(log) : Held(k) = max_hold_days

C27_Witness ==
  /\ Done
  /\ strategy \in {"breakout_pct", "breakout_atr"}
  /\ PositiveCloses
  /\ max_hold_days = 2
  /\ \E k \in 1..Len(log) : Held(k) = 1 /\ log[k].side = "short"

\* the parameter the entry rule multiplies by is in the request
Supplied ==
  CASE Dispatched = "legacy_absolute" -> TRUE
    [] Dispatched = "breakout_pct"    -> raw.threshold_pct # {}
    [] Dispatched = "breakout_atr"    -> raw.atr_k # {}
    [] Dispatched = "mean_reversion"  -> raw.drop_pct # {}

\* how many trades of the longer run had left by bar j
ExitedBy(lg, j) == Cardinality({k \in 1..Len(lg) : lg[k].exitIdx <= j})

\* C28: for runLegacyAbsolute, and for the three position loops with
\* threshold_pct / atr_k / drop_pct supplied, a run on a series and a run on
\* the same series without its last bar (the two agree on bars 0..j, j the
\* last bar of the shorter) produce the same trades with exit index <= j.
C28_NoLookAhead ==
  (Done /\ Len(prev) = 2 /\ Supplied) =>
    LET n == ExitedBy(prev[2], Len(data) - 1)
    IN  /\ \A k \in 1..Len(prev[2]) : (prev[2][k].exitIdx <= Len(data) - 1) <=> (k <= n)
        /\ Len(trades) = n
        /\ trades = SubSeq(prev[1].trades, 1, n)
        /\ log = SubSeq(prev[2], 1, n)

C28_Witness ==
  /\ Done
  /\ Len(prev) = 2
  /\ Supplied
  /\ Adaptive
  /\ Len(log) >= 1
  /\ Len(prev[2]) > Len(log)

\* only long positions can be taken
LongOnly == Dispatched = "legacy_absolute" \/ ~allow_short

\* C29: with positive closes and long-only trading every point of the
\* equity curve is >= 0 and max_drawdown is <= 1.
C29_EquityNonNegative ==
  (PositiveCloses /\ LongOnly) =>
    /\ \A k \in 1..Len(equity_curve) :
         IsFinite(equity_curve[k].equity) /\ equity_curve[k].equity >= 0
    /\ IsFinite(metrics.max_drawdown)
    /\ 0 <= metrics.max_drawdown /\ metrics.max_drawdown <= Micro

\* three crashes in a row: the equity is 10.00, 0.10 and then 0.00, the
\* drawdown 1
C29_Witness ==
  /\ Done
  /\ PositiveCloses /\ LongOnly
  /\ Len(equity_curve) = 4
  /\ equity_curve[3].equity = 10
  /\ equity_curve[4].equity = 0
  /\ metrics.max_drawdown = Micro

\* C30: a position still open when the loop ends yields no trade and leaves
\* the equity curve and the metrics as the closed trades make them; the
\* positions opened exceed the trades by one exactly while one is open; a
\* legacy cross at bar i with i + holdDays >= the series length yields no
\* trade.
C30_OpenPositionDiscarded ==
  pc \in {"loop", "done"} =>
    /\ Adaptive =>
         /\ entries - Len(trades) = (IF pos.side # "none" THEN 1 ELSE 0)
         /\ \A k \in 1..Len(log) : log[k].exitIdx <= Len(data) - 1
         /\ pos.side # "none" => \A k \in 1..Len(log) : log[k].exitIdx <= pos.entryIdx
    /\ (Done /\ data # <<>>) =>
         /\ Len(equity_curve) = Len(trades) + 1
         /\ [equity_curve |-> equity_curve, metrics |-> metrics]
              = buildMetrics(trades, data, InitialEquity)
    /\ ~Adaptive =>
         /\ entries = Len(trades)
         /\ \A k \in 1..Len(log) : log[k].entryIdx + holdDays <= Len(data) - 1

\* the loop has ended with a position entered on the last bar
C30_Witness ==
  /\ Done
  /\ Adaptive
  /\ PositiveCloses
  /\ pos.side # "none"
  /\ pos.entryIdx = Len(data) - 1
  /\ Len(trades) >= 1

====
